---- MODULE Spec2Model ----
(***************************************************************************)
(* Model of the credential lifecycle and search pipeline of gemini-mcp:    *)
(* server.get_session / get_managed_project / onboard_managed_project /    *)
(* gemini_search and manual_auth.save_credentials, run by concurrent       *)
(* processes that share the credential file.                               *)
(*                                                                         *)
(* Time is a natural-number clock.  JSON values are tagged records (field  *)
(* k) so that a null, a plain string, an ISO-8601 string and a number stay *)
(* distinguishable.  The google-auth Credentials object is modelled by the *)
(* contract get_session relies on: `expired` compares the expiry instant   *)
(* with the current instant, `refresh` performs one token-endpoint request *)
(* and either raises or installs the new token and expiry.  The system's   *)
(* local time zone is taken to be UTC.                                     *)
(***************************************************************************)
EXTENDS Integers, Sequences, FiniteSets, TLC

\* ------------------------------------------------------------------ bounds
\* MaxTime: last clock value; MaxCalls, MaxRaceCalls: calls per process in
\* Spec/SpecSearch and in SpecRace; MaxAuth: authorization flows run;
\* StartTime: clock value at the start; EndpointExpiresIn: the lifetime the
\* token endpoint grants
MaxTime == 3
MaxCalls == 2
MaxRaceCalls == 1
MaxAuth == 1
StartTime == 1
EndpointExpiresIn == 2
\* MaxAttempts: largest attempts argument of a direct onboarding call
MaxAttempts == 4
\* MaxTiers: longest allowedTiers list handed to get_default_tier_id
MaxTiers == 3
\* MaxDepth: most components of a configured CREDENTIALS_PATH value
MaxDepth == 4
\* ShortLen: length of the short answer texts; MaxChunks: longest
\* groundingChunks list
ShortLen == 6
MaxChunks == 2

\* ------------------------------------------------------- program constants
DefaultAttempts == 10
SegmentLimit == 100      \* server.py:300
SegmentKeep == 97        \* server.py:301

\* ------------------------------------------------------------ input values
Procs == {1, 2}
PastTime == StartTime - 1
SoonTime == StartTime + 1
FarTime == MaxTime + 10
LongLife == FarTime

\* -------------------------------------------------------------- the state
VARIABLES
    now,        \* the wall clock (UTC instant)
    file,       \* the credential file at get_credentials_path()
    issued,     \* access tokens minted so far by the token endpoint
    op,         \* per process: the entry point called, gemini_search
                \* (server.py:170) or get_session itself (info.py:55)
    pc,         \* per process: position inside gemini_search / get_session
    calls,      \* per process: gemini_search calls started
    callTime,   \* per process: clock value when the current call started
    loaded,     \* per process: the dict as json.load returned it
                \* (creds_data at server.py:39, before any update)
    creds_data, \* per process: the dict, updated after a refresh
    creds,      \* per process: the Credentials object
    flushed,    \* per process: pieces of the dump already written out
    session,    \* per process: how get_session ended in the current call
    outcome,    \* per process: how gemini_search ended in the current call
    net,        \* per process: requests sent during the current call
    opened,     \* per process: times the file was opened for writing
    attempt,    \* per process: loop variable of onboard_managed_project
    project_id, \* per process: result of get_managed_project
    tier_id,    \* per process: tier handed to onboard_managed_project
    slept,      \* per process: time.sleep calls of the onboarding loop
    response,   \* per process: body of the generate response
    attempts,   \* per process: parameter attempts of onboard_managed_project
    assist,     \* per process: body of the loadCodeAssist response
    onboard_data, \* per process: body of the last onboardUser response
    mpc,        \* main.py: position inside main
    mlog,       \* main.py: what main has done so far, in order
    utcoffset,  \* offset of the local time zone from UTC, in clock units
    arg,        \* argument a pure function of the program is applied to
    res,        \* what that application produced
    apc,        \* manual_auth: position inside main / save_credentials
    atokens,    \* manual_auth: the token response being saved
    acreds,     \* manual_auth: the credentials dict being dumped
    aflushed,   \* manual_auth: pieces of the dump already written out
    auths       \* manual_auth: authorization flows started

\* ------------------------------------------------------------- JSON values
Null == [k |-> "null"]
Str(s) == [k |-> "str", s |-> s]
IsoStr(t, off) == [k |-> "iso", t |-> t, off |-> off]
Num(n) == [k |-> "num", n |-> n]
NumStr(n) == [k |-> "numstr", n |-> n]

\* isinstance(x, str) and x
IsNonEmptyStr(x) == x.k \in {"str", "iso", "numstr"} /\ x # Str("")

\* ---------------------------------------------------------------- datetime
NoDatetime == [k |-> "none"]
Datetime(t, tz) == [k |-> "dt", t |-> t, tz |-> tz]
ValueError == [k |-> "ValueError"]

\* str.replace("Z", "+00:00") on an ISO string
ReplaceZ(raw) ==
    IF raw.k = "iso" /\ raw.off = "Z" THEN IsoStr(raw.t, "+00:00") ELSE raw

\* datetime.fromisoformat: an offset gives an aware datetime, no offset a
\* naive one, anything that is not ISO-8601 (also a bare "Z" suffix) raises
fromisoformat(raw) ==
    IF raw.k = "iso" /\ raw.off = "+00:00" THEN Datetime(raw.t, "utc")
    ELSE IF raw.k = "iso" /\ raw.off = "" THEN Datetime(raw.t, "naive")
    ELSE ValueError

\* datetime.isoformat(): an aware UTC datetime prints with "+00:00"
isoformat(dt) == IsoStr(dt.t, IF dt.tz = "utc" THEN "+00:00" ELSE "")

\* datetime.astimezone(timezone.utc): a naive value is read as local time,
\* which is utcoffset ahead of UTC
astimezone_utc(dt) ==
    IF dt.tz = "naive" THEN Datetime(dt.t - utcoffset, "utc")
    ELSE Datetime(dt.t, "utc")

\* float(x): numbers and numeric strings convert, other strings raise
\* ValueError (other types TypeError); both are caught at server.py:58
float(x) ==
    IF x.k \in {"num", "numstr"} THEN x.n ELSE -1
floatRaises(x) == x.k \notin {"num", "numstr"}

\* ------------------------------------------------------- credential record
\* the nine keys manual_auth.save_credentials writes, in json.dump order
Record(at, rt, ei, oa, ex) ==
    [access_token |-> at, refresh_token |-> rt, token_type |-> Str("Bearer"),
     expires_in |-> ei, obtained_at |-> oa, expiry |-> ex,
     scope |-> Str("cloud-platform"), client_id |-> Str("client-id"),
     client_secret |-> Str("client-secret")]

NoRecord == [k |-> "norecord"]
NoCreds == [k |-> "nocreds"]

\* ------------------------------------------------------ the file on disk
\* The serialised record is written in two consecutive pieces (part 1: the
\* keys access_token .. expires_in, part 2: obtained_at .. client_secret);
\* a position of the file holds a piece or, past a seek gap, a hole.
Hole == [part |-> 0]
Piece(i, rec) == [part |-> i, rec |-> rec]
Serialise(rec) == <<Piece(1, rec), Piece(2, rec)>>
NoFile == [exists |-> FALSE, data |-> <<>>]
FileOf(rec) == [exists |-> TRUE, data |-> Serialise(rec)]

\* the text parses as one JSON object exactly when both pieces are there
WellFormed(data) ==
    /\ Len(data) = 2
    /\ \A i \in 1..2 : data[i] # Hole /\ data[i].part = i

\* json.load of a well-formed text: each key comes from the piece holding it
json_load(data) ==
    [access_token |-> data[1].rec.access_token,
     refresh_token |-> data[1].rec.refresh_token,
     token_type |-> data[1].rec.token_type,
     expires_in |-> data[1].rec.expires_in,
     obtained_at |-> data[2].rec.obtained_at,
     expiry |-> data[2].rec.expiry,
     scope |-> data[2].rec.scope,
     client_id |-> data[2].rec.client_id,
     client_secret |-> data[2].rec.client_secret]

\* write(2) of pieces at offset pos (1-based): overwrites in place, extends
\* the file, and leaves holes when pos lies past the end
WriteAt(data, pos, pieces) ==
    LET newLen == IF pos + Len(pieces) - 1 > Len(data)
                  THEN pos + Len(pieces) - 1 ELSE Len(data)
    IN [i \in 1..newLen |->
          IF i >= pos /\ i < pos + Len(pieces) THEN pieces[i - pos + 1]
          ELSE IF i <= Len(data) THEN data[i]
          ELSE Hole]

\* open(path, "w"): creates the file if needed and truncates it to length 0
OpenForWrite(f) == [exists |-> TRUE, data |-> <<>>]

\* ---------------------------------------------------- get_session helpers
\* variant: no fallback to obtained_at + expires_in
ComputeExpiry_noFallback(cd) ==
    IF IsNonEmptyStr(cd.expiry)
    THEN LET d == fromisoformat(ReplaceZ(cd.expiry))
         IN IF d = ValueError THEN NoDatetime ELSE d
    ELSE NoDatetime

\* server.py:41-59, the expiry handed to Credentials
ComputeExpiry(cd) ==
    IF IsNonEmptyStr(cd.expiry)
    THEN LET d == fromisoformat(ReplaceZ(cd.expiry))
         IN IF d = ValueError THEN NoDatetime ELSE d
    ELSE IF IsNonEmptyStr(cd.obtained_at) /\ cd.expires_in # Null
         THEN LET d == fromisoformat(ReplaceZ(cd.obtained_at))
              IN IF d = ValueError \/ floatRaises(cd.expires_in)
                 THEN NoDatetime
                 ELSE Datetime(d.t + float(cd.expires_in), "utc")
         ELSE NoDatetime

\* server.py:66-74, the Credentials object built from the record
MakeCreds(cd) ==
    [token |-> cd.access_token, refresh_token |-> cd.refresh_token,
     expiry |-> ComputeExpiry(cd)]

\* Credentials.expired: no expiry never expires, else now >= expiry
Expired(c, t) == c.expiry # NoDatetime /\ t >= c.expiry.t

\* truthiness of creds.refresh_token
HasRefreshToken(c) == c.refresh_token # Null /\ c.refresh_token # Str("")

\* variant: the expiry is not consulted
NeedsRefresh_ignoresExpiry(c, t) == HasRefreshToken(c)

\* server.py:77, the refresh condition
NeedsRefresh(c, t) ==
    (Expired(c, t) \/ c.expiry = NoDatetime) /\ HasRefreshToken(c)

\* Credentials.refresh on a successful token response: new access token,
\* expiry = utcnow + expires_in (naive) or None, refresh token replaced
\* only when the response carries one
Refreshed(c, resp, newToken, t) ==
    [token |-> newToken,
     refresh_token |-> IF resp.refresh_token = Null THEN c.refresh_token
                       ELSE resp.refresh_token,
     expiry |-> IF resp.expires_in = Null THEN NoDatetime
                ELSE Datetime(t + resp.expires_in.n, "naive")]

\* server.py:80-84, the in-memory record after a refresh
UpdatedData(cd, c, t) ==
    IF c.expiry # NoDatetime
    THEN [cd EXCEPT !.access_token = c.token,
                    !.obtained_at = isoformat(Datetime(t, "utc")),
                    !.expiry = isoformat(astimezone_utc(c.expiry))]
    ELSE [cd EXCEPT !.access_token = c.token]

\* token-endpoint responses to a refresh request
RefreshResponses ==
    [ok : {TRUE}, expires_in : {Null, Num(EndpointExpiresIn)},
     refresh_token : {Null, Str("R1")}]
      \cup {[ok |-> FALSE, expires_in |-> Null, refresh_token |-> Null]}

\* ----------------------------------------------------- tuples of variables
vars == <<now, file, issued, op, pc, calls, callTime, loaded, creds_data,
          creds, flushed,
          session, outcome, net, opened, attempt, project_id, tier_id,
          slept, response, attempts, assist, onboard_data, mpc, mlog,
          utcoffset, arg, res,
          apc, atokens, acreds, aflushed, auths>>

procVars == <<op, pc, calls, callTime, loaded, creds_data, creds, flushed,
              session,
              outcome, net, opened, attempt, project_id, tier_id, slept,
              response, attempts, assist, onboard_data>>
searchVars == <<attempt, project_id, tier_id, slept, response, attempts,
                assist, onboard_data>>
pureVars == <<arg, res>>
mainVars == <<mpc, mlog>>
authVars == <<apc, atokens, acreds, aflushed, auths>>

Pending == [k |-> "pending"]
Token(n) == [k |-> "token", token |-> n]
Raise(e) == [k |-> "raise", exc |-> e]
Return(s) == [k |-> "return", text |-> s]
NoNet == [refresh |-> 0, load |-> 0, onboard |-> 0, generate |-> 0]
NoAssist == [project |-> "", tiers |-> <<>>]
NoData == [kind |-> "none", done |-> FALSE, id |-> ""]
NoArg == [fn |-> "none"]
NoRes == [k |-> "none"]

NotFoundMessage ==
    "credentials.json not found. Please run manual_auth.py first to authenticate."

\* records the file may hold when the processes start
InitRecords ==
    {Record(0, rt, Num(LongLife), IsoStr(PastTime, "+00:00"), ex) :
        rt \in {Null, Str("R0")},
        ex \in {IsoStr(PastTime, "+00:00"), IsoStr(SoonTime, "Z"),
                IsoStr(FarTime, "+00:00"), IsoStr(FarTime, ""),
                Str("not-a-date")}}
    \cup
    {Record(0, rt, dv[1], dv[2], ex) :
        rt \in {Null, Str("R0")},
        ex \in {Null, Str("")},
        dv \in {<<Null, Null>>,
                <<Null, IsoStr(PastTime, "+00:00")>>,
                <<Num(LongLife), IsoStr(PastTime, "")>>,
                <<NumStr(LongLife), IsoStr(PastTime, "Z")>>,
                <<Num(StartTime - PastTime), IsoStr(PastTime, "Z")>>,
                <<Str("soon"), IsoStr(PastTime, "+00:00")>>}}

InitAnyZone ==
    /\ now = StartTime
    /\ file \in {NoFile} \cup {FileOf(r) : r \in InitRecords}
    /\ issued = 0
    /\ op = [p \in Procs |-> "none"]
    /\ pc = [p \in Procs |-> "idle"]
    /\ calls = [p \in Procs |-> 0]
    /\ callTime = [p \in Procs |-> StartTime]
    /\ loaded = [p \in Procs |-> NoRecord]
    /\ creds_data = [p \in Procs |-> NoRecord]
    /\ creds = [p \in Procs |-> NoCreds]
    /\ flushed = [p \in Procs |-> 0]
    /\ session = [p \in Procs |-> Pending]
    /\ outcome = [p \in Procs |-> Pending]
    /\ net = [p \in Procs |-> NoNet]
    /\ opened = [p \in Procs |-> 0]
    /\ attempt = [p \in Procs |-> 0]
    /\ project_id = [p \in Procs |-> ""]
    /\ tier_id = [p \in Procs |-> ""]
    /\ slept = [p \in Procs |-> 0]
    /\ response = [p \in Procs |-> ""]
    /\ attempts = [p \in Procs |-> DefaultAttempts]
    /\ assist = [p \in Procs |-> NoAssist]
    /\ onboard_data = [p \in Procs |-> NoData]
    /\ mpc = "idle"
    /\ mlog = <<>>
    /\ arg = NoArg
    /\ res = NoRes
    /\ apc = "idle"
    /\ atokens = NoRecord
    /\ acreds = NoRecord
    /\ aflushed = 0
    /\ auths = 0

\* the local time zone is UTC
Init ==
    /\ InitAnyZone
    /\ utcoffset = 0

\* the clock advances
Tick ==
    /\ now < MaxTime
    /\ now' = now + 1
    /\ UNCHANGED <<file, issued, procVars, authVars, pureVars, mainVars, utcoffset>>

\* a caller invokes entry point o: gemini_search (server.py:170), which
\* starts with get_session, or get_session itself (info.py:55)
StartCall(p, o, limit) ==
    /\ pc[p] \in {"idle", "done"}
    /\ calls[p] < limit
    /\ op' = [op EXCEPT ![p] = o]
    /\ pc' = [pc EXCEPT ![p] = "gs_exists"]
    /\ calls' = [calls EXCEPT ![p] = @ + 1]
    /\ callTime' = [callTime EXCEPT ![p] = now]
    /\ loaded' = [loaded EXCEPT ![p] = NoRecord]
    /\ creds_data' = [creds_data EXCEPT ![p] = NoRecord]
    /\ creds' = [creds EXCEPT ![p] = NoCreds]
    /\ flushed' = [flushed EXCEPT ![p] = 0]
    /\ session' = [session EXCEPT ![p] = Pending]
    /\ outcome' = [outcome EXCEPT ![p] = Pending]
    /\ net' = [net EXCEPT ![p] = NoNet]
    /\ opened' = [opened EXCEPT ![p] = 0]
    /\ attempt' = [attempt EXCEPT ![p] = 0]
    /\ project_id' = [project_id EXCEPT ![p] = ""]
    /\ tier_id' = [tier_id EXCEPT ![p] = ""]
    /\ slept' = [slept EXCEPT ![p] = 0]
    /\ response' = [response EXCEPT ![p] = ""]
    /\ attempts' = [attempts EXCEPT ![p] = DefaultAttempts]
    /\ assist' = [assist EXCEPT ![p] = NoAssist]
    /\ onboard_data' = [onboard_data EXCEPT ![p] = NoData]
    /\ UNCHANGED <<now, file, issued, authVars, pureVars, mainVars, utcoffset>>

\* get_session ends by raising exc, which gemini_search does not catch
SessionRaises(p, exc) ==
    /\ session' = [session EXCEPT ![p] = Raise(exc)]
    /\ outcome' = [outcome EXCEPT ![p] =
                     IF op[p] = "gemini_search" THEN Raise(exc) ELSE @]
    /\ pc' = [pc EXCEPT ![p] = "done"]

\* get_session returns creds.token; gemini_search goes on to step 2
SessionReturns(p, tok) ==
    /\ session' = [session EXCEPT ![p] = Token(tok)]
    /\ pc' = [pc EXCEPT ![p] =
                IF op[p] = "gemini_search" THEN "load_assist" ELSE "done"]
    /\ UNCHANGED outcome

\* variant: gemini_search has no except clause for FileNotFoundError
GsExists_uncaught(p) ==
    /\ pc[p] = "gs_exists"
    /\ IF file.exists
       THEN /\ pc' = [pc EXCEPT ![p] = "gs_load"]
            /\ UNCHANGED <<session, outcome>>
       ELSE SessionRaises(p, "FileNotFoundError")
    /\ UNCHANGED <<now, file, issued, op, calls, callTime, loaded,
                   creds_data, creds, flushed, net, opened, searchVars,
                   authVars, pureVars, mainVars, utcoffset>>

\* server.py:31-36 and 181-185: the existence check; FileNotFoundError is
\* the one exception gemini_search turns into a returned message
GsExists(p) ==
    /\ pc[p] = "gs_exists"
    /\ IF file.exists
       THEN /\ pc' = [pc EXCEPT ![p] = "gs_load"]
            /\ UNCHANGED <<session, outcome>>
       ELSE /\ session' = [session EXCEPT ![p] = Raise("FileNotFoundError")]
            /\ outcome' = [outcome EXCEPT ![p] =
                             IF op[p] = "gemini_search"
                             THEN Return(NotFoundMessage) ELSE @]
            /\ pc' = [pc EXCEPT ![p] = "done"]
    /\ UNCHANGED <<now, file, issued, op, calls, callTime, loaded,
                   creds_data, creds,
                   flushed, net, opened, searchVars, authVars, pureVars, mainVars,
                   utcoffset>>

\* server.py:38-77 and 88: read and parse the file, build the Credentials,
\* decide whether to refresh; without a refresh return the stored token
GsLoad(p) ==
    /\ pc[p] = "gs_load"
    /\ IF ~WellFormed(file.data)
       THEN /\ SessionRaises(p, "JSONDecodeError")
            /\ UNCHANGED <<loaded, creds_data, creds>>
       ELSE LET cd == json_load(file.data)
                c == MakeCreds(cd)
            IN /\ loaded' = [loaded EXCEPT ![p] = cd]
               /\ creds_data' = [creds_data EXCEPT ![p] = cd]
               /\ creds' = [creds EXCEPT ![p] = c]
               /\ IF NeedsRefresh(c, now)
                  THEN /\ pc' = [pc EXCEPT ![p] = "gs_refresh"]
                       /\ UNCHANGED <<session, outcome>>
                  ELSE SessionReturns(p, c.token)
    /\ UNCHANGED <<now, file, issued, op, calls, callTime, flushed, net,
                   opened,
                   searchVars, authVars, pureVars, mainVars, utcoffset>>

\* variant: the file is opened for writing before the refresh is known to
\* have succeeded
GsRefresh_opensFirst(p) ==
    /\ pc[p] = "gs_refresh"
    /\ net' = [net EXCEPT ![p].refresh = @ + 1]
    /\ \E resp \in RefreshResponses :
         IF resp.ok
         THEN LET c == Refreshed(creds[p], resp, issued + 1, now)
              IN /\ issued' = issued + 1
                 /\ creds' = [creds EXCEPT ![p] = c]
                 /\ creds_data' = [creds_data EXCEPT
                                     ![p] = UpdatedData(creds_data[p], c, now)]
                 /\ pc' = [pc EXCEPT ![p] = "gs_open"]
                 /\ UNCHANGED <<session, outcome, file>>
         ELSE /\ SessionRaises(p, "RefreshError")
              /\ file' = OpenForWrite(file)
              /\ UNCHANGED <<issued, creds, creds_data>>
    /\ UNCHANGED <<now, op, calls, callTime, loaded, flushed, opened,
                   searchVars, authVars, pureVars, mainVars, utcoffset>>

\* server.py:78-84: creds.refresh(Request()) sends one request to the token
\* endpoint; a failure raises RefreshError before anything is modified
GsRefresh(p) ==
    /\ pc[p] = "gs_refresh"
    /\ net' = [net EXCEPT ![p].refresh = @ + 1]
    /\ \E resp \in RefreshResponses :
         IF resp.ok
         THEN LET c == Refreshed(creds[p], resp, issued + 1, now)
              IN /\ issued' = issued + 1
                 /\ creds' = [creds EXCEPT ![p] = c]
                 /\ creds_data' = [creds_data EXCEPT
                                     ![p] = UpdatedData(creds_data[p], c, now)]
                 /\ pc' = [pc EXCEPT ![p] = "gs_open"]
                 /\ UNCHANGED <<session, outcome>>
         ELSE /\ SessionRaises(p, "RefreshError")
              /\ UNCHANGED <<issued, creds, creds_data>>
    /\ UNCHANGED <<now, file, op, calls, callTime, loaded, flushed, opened,
                   searchVars,
                   authVars, pureVars, mainVars, utcoffset>>

\* server.py:85: open(creds_path, "w") truncates the file
GsOpen(p) ==
    /\ pc[p] = "gs_open"
    /\ file' = OpenForWrite(file)
    /\ opened' = [opened EXCEPT ![p] = @ + 1]
    /\ flushed' = [flushed EXCEPT ![p] = 0]
    /\ pc' = [pc EXCEPT ![p] = "gs_dump"]
    /\ UNCHANGED <<now, issued, op, calls, callTime, loaded, creds_data,
                   creds, session,
                   outcome, net, searchVars, authVars, pureVars, mainVars, utcoffset>>

\* server.py:86: json.dump fills the stream buffer; when the buffer runs
\* full before the dump ends, the first piece is written out on its own
GsFlush(p) ==
    /\ pc[p] = "gs_dump"
    /\ flushed[p] = 0
    /\ file' = [file EXCEPT !.data =
                  WriteAt(@, 1, <<Serialise(creds_data[p])[1]>>)]
    /\ flushed' = [flushed EXCEPT ![p] = 1]
    /\ UNCHANGED <<now, issued, op, pc, calls, callTime, loaded, creds_data,
                   creds,
                   session, outcome, net, opened, searchVars,
                   authVars, pureVars, mainVars, utcoffset>>

\* server.py:85-88: leaving the with block writes out what is still
\* buffered at the stream's own offset, then get_session returns the token
GsClose(p) ==
    /\ pc[p] = "gs_dump"
    /\ file' = [file EXCEPT !.data =
                  WriteAt(@, flushed[p] + 1,
                          SubSeq(Serialise(creds_data[p]), flushed[p] + 1,
                                 Len(Serialise(creds_data[p]))))]
    /\ flushed' = [flushed EXCEPT ![p] = Len(Serialise(creds_data[p]))]
    /\ SessionReturns(p, creds[p].token)
    /\ UNCHANGED <<now, issued, op, calls, callTime, loaded, creds_data,
                   creds, net,
                   opened, searchVars, authVars, pureVars, mainVars, utcoffset>>

\* ------------------------------------------------------ project resolution
FreeTier == "free-tier"
Tier(id, isDefault) == [hasId |-> TRUE, id |-> id, isDefault |-> isDefault]
TierNoId(isDefault) == [hasId |-> FALSE, id |-> "", isDefault |-> isDefault]

\* tier.get("id", "free-tier")
TierId(tier) == IF tier.hasId THEN tier.id ELSE FreeTier

\* get_default_tier_id without the loop over isDefault of lines 94-96
get_default_tier_id_firstOnly(allowed_tiers) ==
    IF Len(allowed_tiers) = 0 THEN FreeTier ELSE TierId(allowed_tiers[1])

\* server.py:91-98
get_default_tier_id(allowed_tiers) ==
    IF Len(allowed_tiers) = 0 THEN FreeTier
    ELSE IF \E i \in 1..Len(allowed_tiers) : allowed_tiers[i].isDefault
         THEN LET i == CHOOSE j \in 1..Len(allowed_tiers) :
                         /\ allowed_tiers[j].isDefault
                         /\ \A m \in 1..(j - 1) : ~allowed_tiers[m].isDefault
              IN TierId(allowed_tiers[i])
         ELSE TierId(allowed_tiers[1])

\* loadCodeAssist answers: transport failure, non-2xx, or a body with or
\* without cloudaicompanionProject and with an allowedTiers list
TierLists ==
    {<<>>, <<Tier("a", FALSE)>>, <<Tier("a", FALSE), Tier("b", TRUE)>>,
     <<TierNoId(TRUE), Tier("a", FALSE)>>}
LoadAssistResponses ==
    {[kind |-> "ConnectionError", project |-> "", tiers |-> <<>>],
     [kind |-> "HTTPError", project |-> "", tiers |-> <<>>],
     [kind |-> "ok", project |-> "managed-project", tiers |-> <<>>]}
    \cup {[kind |-> "ok", project |-> "", tiers |-> t] : t \in TierLists}

\* onboardUser answers
OnboardResponses ==
    {[kind |-> "HTTPError", done |-> FALSE, id |-> ""],
     [kind |-> "ok", done |-> FALSE, id |-> ""],
     [kind |-> "ok", done |-> TRUE, id |-> ""],
     [kind |-> "ok", done |-> TRUE, id |-> "onboarded-project"]}

\* generateContent answers: transport failure, non-2xx, or a 2xx body that
\* is not JSON, is a JSON object of the expected shape, is an object whose
\* candidates entry is a mapping without key 0 (KeyError, caught), or is
\* JSON whose top level is not an object (AttributeError on data.get)
GenerateResponses ==
    {"ConnectionError", "HTTPError", "not-json", "object", "keyerror-shape",
     "not-an-object"}

\* SearchRaises repeating the failed step instead of ending the call
SearchRaises_retries(p, exc) ==
    /\ UNCHANGED <<outcome, pc>>

\* gemini_search ends by raising exc
SearchRaises(p, exc) ==
    /\ outcome' = [outcome EXCEPT ![p] = Raise(exc)]
    /\ pc' = [pc EXCEPT ![p] = "done"]

\* gemini_search ends by returning text
SearchReturns(p, text) ==
    /\ outcome' = [outcome EXCEPT ![p] = Return(text)]
    /\ pc' = [pc EXCEPT ![p] = "done"]

\* onboard_managed_project returns id: to gemini_search through
\* get_managed_project (server.py:167, 188), or to a direct caller
OnboardReturns(p, id) ==
    /\ project_id' = [project_id EXCEPT ![p] = id]
    /\ IF op[p] = "gemini_search"
       THEN /\ pc' = [pc EXCEPT ![p] = "generate"]
            /\ UNCHANGED outcome
       ELSE /\ pc' = [pc EXCEPT ![p] = "done"]
            /\ outcome' = [outcome EXCEPT ![p] = Return(id)]

\* server.py:101-135 entered with attempts = n: range(0) runs no iteration
\* and falls through to return "" at line 135
EnterOnboard(p, n) ==
    /\ attempts' = [attempts EXCEPT ![p] = n]
    /\ IF n > 0
       THEN /\ pc' = [pc EXCEPT ![p] = "onboard"]
            /\ UNCHANGED <<outcome, project_id>>
       ELSE OnboardReturns(p, "")

\* GetManagedProject without the early return of server.py:160-161
GetManagedProject_alwaysOnboards(p) ==
    /\ pc[p] = "load_assist"
    /\ net' = [net EXCEPT ![p].load = @ + 1]
    /\ \E r \in LoadAssistResponses :
         IF r.kind # "ok"
         THEN /\ SearchRaises(p, r.kind)
              /\ UNCHANGED <<project_id, tier_id, attempts, assist>>
         ELSE /\ assist' = [assist EXCEPT ![p] = [project |-> r.project,
                                                  tiers |-> r.tiers]]
              /\ tier_id' = [tier_id EXCEPT
                               ![p] = get_default_tier_id(r.tiers)]
              /\ EnterOnboard(p, DefaultAttempts)
    /\ UNCHANGED <<now, file, issued, op, calls, callTime, loaded,
                   creds_data, creds,
                   flushed, session, opened, attempt, slept, response,
                   onboard_data, authVars, pureVars, mainVars, utcoffset>>

\* server.py:138-167 called at 188: one loadCodeAssist request; errors of
\* requests.post and raise_for_status are not caught by gemini_search
GetManagedProject(p) ==
    /\ pc[p] = "load_assist"
    /\ net' = [net EXCEPT ![p].load = @ + 1]
    /\ \E r \in LoadAssistResponses :
         IF r.kind # "ok"
         THEN /\ SearchRaises(p, r.kind)
              /\ UNCHANGED <<project_id, tier_id, attempts, assist>>
         ELSE /\ assist' = [assist EXCEPT ![p] = [project |-> r.project,
                                                  tiers |-> r.tiers]]
              /\ IF r.project # ""
                 THEN /\ project_id' = [project_id EXCEPT ![p] = r.project]
                      /\ pc' = [pc EXCEPT ![p] = "generate"]
                      /\ UNCHANGED <<outcome, tier_id, attempts>>
                 ELSE /\ tier_id' = [tier_id EXCEPT
                                       ![p] = get_default_tier_id(r.tiers)]
                      /\ EnterOnboard(p, DefaultAttempts)
    /\ UNCHANGED <<now, file, issued, op, calls, callTime, loaded,
                   creds_data, creds,
                   flushed, session, opened, attempt, slept, response,
                   onboard_data, authVars, pureVars, mainVars, utcoffset>>

\* OnboardFinished taking done alone as the end of onboarding
OnboardFinished_anyDone(data) == data.done

\* server.py:127-130: data.get("done") and a non-empty project id
OnboardFinished(data) == data.done /\ data.id # ""

\* OnboardAttempt with the last-iteration test of line 132 off by one
OnboardAttempt_noLastIteration(p) ==
    /\ pc[p] = "onboard"
    /\ attempt[p] < attempts[p]
    /\ net' = [net EXCEPT ![p].onboard = @ + 1]
    /\ \E r \in OnboardResponses :
       /\ onboard_data' = [onboard_data EXCEPT ![p] = r]
       /\ IF r.kind # "ok"
         THEN /\ SearchRaises(p, r.kind)
              /\ UNCHANGED <<project_id, attempt, slept>>
         ELSE IF OnboardFinished(r)
         THEN /\ OnboardReturns(p, r.id)
              /\ UNCHANGED <<attempt, slept>>
         ELSE /\ attempt' = [attempt EXCEPT ![p] = @ + 1]
              /\ slept' = [slept EXCEPT ![p] = @ + 1]
              /\ UNCHANGED <<pc, outcome, project_id>>
    /\ UNCHANGED <<now, file, issued, op, calls, callTime, loaded,
                   creds_data, creds, flushed, session, opened, tier_id,
                   response, attempts, assist, authVars, pureVars, mainVars,
                   utcoffset>>

\* server.py:122-135: one iteration of the polling loop
OnboardAttempt(p) ==
    /\ pc[p] = "onboard"
    /\ attempt[p] < attempts[p]
    /\ net' = [net EXCEPT ![p].onboard = @ + 1]
    /\ \E r \in OnboardResponses :
       /\ onboard_data' = [onboard_data EXCEPT ![p] = r]
       /\ IF r.kind # "ok"
         THEN /\ SearchRaises(p, r.kind)
              /\ UNCHANGED <<project_id, attempt, slept>>
         ELSE IF OnboardFinished(r)
         THEN /\ OnboardReturns(p, r.id)
              /\ UNCHANGED <<attempt, slept>>
         ELSE /\ attempt' = [attempt EXCEPT ![p] = @ + 1]
              /\ IF attempt[p] < attempts[p] - 1
                 THEN /\ slept' = [slept EXCEPT ![p] = @ + 1]
                      /\ UNCHANGED <<pc, outcome, project_id>>
                 ELSE /\ OnboardReturns(p, "")
                      /\ UNCHANGED slept
    /\ UNCHANGED <<now, file, issued, op, calls, callTime, loaded,
                   creds_data, creds, flushed, session, opened, tier_id,
                   response, attempts, assist, authVars, pureVars, mainVars,
                   utcoffset>>

\* a direct call onboard_managed_project(access_token, t, attempts = n)
StartOnboard(p, n, t) ==
    /\ pc[p] \in {"idle", "done"}
    /\ calls[p] < MaxCalls
    /\ op' = [op EXCEPT ![p] = "onboard_managed_project"]
    /\ calls' = [calls EXCEPT ![p] = @ + 1]
    /\ net' = [net EXCEPT ![p] = NoNet]
    /\ attempt' = [attempt EXCEPT ![p] = 0]
    /\ slept' = [slept EXCEPT ![p] = 0]
    /\ tier_id' = [tier_id EXCEPT ![p] = t]
    /\ attempts' = [attempts EXCEPT ![p] = n]
    /\ IF n > 0
       THEN /\ pc' = [pc EXCEPT ![p] = "onboard"]
            /\ outcome' = [outcome EXCEPT ![p] = Pending]
            /\ project_id' = [project_id EXCEPT ![p] = ""]
       ELSE OnboardReturns(p, "")
    /\ onboard_data' = [onboard_data EXCEPT ![p] = NoData]
    /\ UNCHANGED <<now, file, issued, callTime, loaded, creds_data, creds,
                   flushed, session, opened, response, assist, authVars,
                   pureVars, mainVars, utcoffset>>

\* the error texts of server.py:215 and 217
HttpErrorText == "HTTP Error"
RequestFailedText == "Request failed"

\* Generate without the try/except of server.py:210-217
Generate_uncaught(p) ==
    /\ pc[p] = "generate"
    /\ net' = [net EXCEPT ![p].generate = @ + 1]
    /\ \E r \in GenerateResponses :
         /\ response' = [response EXCEPT ![p] = r]
         /\ IF r \in {"ConnectionError", "HTTPError"}
            THEN SearchRaises(p, r)
            ELSE /\ pc' = [pc EXCEPT ![p] = "parse"]
                 /\ UNCHANGED outcome
    /\ UNCHANGED <<now, file, issued, op, calls, callTime, loaded,
                   creds_data, creds,
                   flushed, session, opened, attempt, project_id, tier_id,
                   slept, attempts, assist, onboard_data, authVars,
                   pureVars, mainVars, utcoffset>>

\* server.py:190-217: one generateContent request; RequestException is
\* caught and turned into a returned error text: with status and body when
\* the exception carries a response (raise_for_status), without otherwise
Generate(p) ==
    /\ pc[p] = "generate"
    /\ net' = [net EXCEPT ![p].generate = @ + 1]
    /\ \E r \in GenerateResponses :
         /\ response' = [response EXCEPT ![p] = r]
         /\ IF r = "ConnectionError" THEN SearchReturns(p, RequestFailedText)
            ELSE IF r = "HTTPError" THEN SearchReturns(p, HttpErrorText)
            ELSE /\ pc' = [pc EXCEPT ![p] = "parse"]
                 /\ UNCHANGED outcome
    /\ UNCHANGED <<now, file, issued, op, calls, callTime, loaded,
                   creds_data, creds,
                   flushed, session, opened, attempt, project_id, tier_id,
                   slept, attempts, assist, onboard_data, authVars,
                   pureVars, mainVars, utcoffset>>

\* server.py:219-315: decode the body, extract answer and grounding
\* metadata, format; only JSONDecodeError, KeyError and IndexError are caught
ParseAndFormat(p) ==
    /\ pc[p] = "parse"
    /\ IF response[p] = "not-json"
       THEN SearchReturns(p, "Failed to parse response as JSON")
       ELSE IF response[p] = "not-an-object"
       THEN SearchRaises(p, "AttributeError")
       ELSE SearchReturns(p, "## Answer")
    /\ UNCHANGED <<now, file, issued, op, calls, callTime, loaded,
                   creds_data, creds,
                   flushed, session, net, opened, searchVars, authVars,
                   pureVars, mainVars, utcoffset>>

\* ------------------------------------------------- the authorization flow
\* token-endpoint responses to the code exchange
ExchangeResponses ==
    {[ok |-> TRUE, expires_in |-> e, refresh_token |-> Str("R0")] :
        e \in {Num(EndpointExpiresIn), NumStr(EndpointExpiresIn), Null}}
    \cup {[ok |-> FALSE, expires_in |-> Null, refresh_token |-> Null]}

\* SavedCredentials converting whatever float() accepts, as get_session does
SavedCredentials_floatsStrings(tokens, t) ==
    LET obtained_at == Datetime(t, "utc")
        expiry == IF ~floatRaises(tokens.expires_in)
                  THEN Datetime(t + float(tokens.expires_in), "utc")
                  ELSE NoDatetime
    IN Record(tokens.access_token, tokens.refresh_token, tokens.expires_in,
              isoformat(obtained_at),
              IF expiry # NoDatetime THEN isoformat(expiry) ELSE Null)

\* manual_auth.py:95-111, the dict save_credentials dumps
SavedCredentials(tokens, t) ==
    LET obtained_at == Datetime(t, "utc")
        expiry == IF tokens.expires_in.k = "num"
                  THEN Datetime(t + float(tokens.expires_in), "utc")
                  ELSE NoDatetime
    IN Record(tokens.access_token, tokens.refresh_token, tokens.expires_in,
              isoformat(obtained_at),
              IF expiry # NoDatetime THEN isoformat(expiry) ELSE Null)

\* manual_auth.py:128-175 and 72-86: main runs the flow up to the code
\* exchange; a rejected exchange raises and nothing is saved
AuthExchange ==
    /\ apc = "idle"
    /\ auths < MaxAuth
    /\ auths' = auths + 1
    /\ \E r \in ExchangeResponses :
         IF r.ok
         THEN /\ issued' = issued + 1
              /\ atokens' = [access_token |-> issued + 1,
                             refresh_token |-> r.refresh_token,
                             expires_in |-> r.expires_in]
              /\ apc' = "save"
         ELSE /\ apc' = "idle"
              /\ UNCHANGED <<issued, atokens>>
    /\ UNCHANGED <<now, file, procVars, pureVars, mainVars, acreds, aflushed,
                   utcoffset>>

\* manual_auth.py:89-113: build the dict and open the file for writing
AuthOpen ==
    /\ apc = "save"
    /\ acreds' = SavedCredentials(atokens, now)
    /\ file' = OpenForWrite(file)
    /\ aflushed' = 0
    /\ apc' = "dump"
    /\ UNCHANGED <<now, issued, procVars, pureVars, mainVars, atokens, auths,
                   utcoffset>>

\* manual_auth.py:114: the stream buffer runs full during json.dump
AuthFlush ==
    /\ apc = "dump"
    /\ aflushed = 0
    /\ file' = [file EXCEPT !.data = WriteAt(@, 1, <<Serialise(acreds)[1]>>)]
    /\ aflushed' = 1
    /\ UNCHANGED <<now, issued, procVars, pureVars, mainVars, apc, atokens, acreds, auths,
                   utcoffset>>

\* manual_auth.py:113-116: leaving the with block writes the rest
AuthClose ==
    /\ apc = "dump"
    /\ file' = [file EXCEPT !.data =
                  WriteAt(@, aflushed + 1,
                          SubSeq(Serialise(acreds), aflushed + 1,
                                 Len(Serialise(acreds))))]
    /\ aflushed' = Len(Serialise(acreds))
    /\ apc' = "idle"
    /\ UNCHANGED <<now, issued, procVars, pureVars, mainVars, atokens, acreds, auths,
                   utcoffset>>

\* ------------------------------------------------------- the specification
\* Spec: the order of main.py:46-54.  The authorization flow, when it runs,
\* runs to its end while no call is in progress; one process then calls
\* get_session again and again while time passes.
Callers == {1}
NoCallInProgress == \A p \in Procs : pc[p] \in {"idle", "done"}
Next ==
    \/ Tick
    \/ \E p \in Callers : apc = "idle" /\ StartCall(p, "get_session", MaxCalls)
    \/ \E p \in Callers : GsExists(p)
    \/ \E p \in Callers : GsLoad(p)
    \/ \E p \in Callers : GsRefresh(p)
    \/ \E p \in Callers : GsOpen(p)
    \/ \E p \in Callers : GsFlush(p)
    \/ \E p \in Callers : GsClose(p)
    \/ NoCallInProgress /\ AuthExchange
    \/ AuthOpen
    \/ AuthFlush
    \/ AuthClose

Spec == Init /\ [][Next]_vars

\* SpecRace: two processes call get_session concurrently with each other
\* and with the authorization flow
RaceRecords ==
    {Record(0, rt, Num(LongLife), IsoStr(PastTime, "+00:00"), ex) :
        rt \in {Null, Str("R0")},
        ex \in {IsoStr(PastTime, "+00:00"), IsoStr(FarTime, "+00:00")}}

InitRace ==
    /\ Init
    /\ file \in {NoFile} \cup {FileOf(r) : r \in RaceRecords}

NextRace ==
    \/ \E p \in Procs : StartCall(p, "get_session", MaxRaceCalls)
    \/ \E p \in Procs : GsExists(p)
    \/ \E p \in Procs : GsLoad(p)
    \/ \E p \in Procs : GsRefresh(p)
    \/ \E p \in Procs : GsOpen(p)
    \/ \E p \in Procs : GsFlush(p)
    \/ \E p \in Procs : GsClose(p)
    \/ AuthExchange
    \/ AuthOpen
    \/ AuthFlush
    \/ AuthClose

SpecRace == InitRace /\ [][NextRace]_vars

\* SpecSearch: one process calls gemini_search again and again
Searchers == {1}
NextSearch ==
    \/ Tick
    \/ \E p \in Searchers : StartCall(p, "gemini_search", MaxCalls)
    \/ \E p \in Searchers : GsExists(p)
    \/ \E p \in Searchers : GsLoad(p)
    \/ \E p \in Searchers : GsRefresh(p)
    \/ \E p \in Searchers : GsOpen(p)
    \/ \E p \in Searchers : GsFlush(p)
    \/ \E p \in Searchers : GsClose(p)
    \/ \E p \in Searchers : GetManagedProject(p)
    \/ \E p \in Searchers : OnboardAttempt(p)
    \/ \E p \in Searchers : Generate(p)
    \/ \E p \in Searchers : ParseAndFormat(p)

SpecSearch == Init /\ [][NextSearch]_vars

\* SpecTier: get_default_tier_id applied to every allowedTiers list of at
\* most MaxTiers tiers; a tier has one of two ids or none, flagged or not
TierValues ==
    {Tier(id, d) : id \in {"a", "b"}, d \in BOOLEAN}
    \cup {TierNoId(d) : d \in BOOLEAN}
AllTierLists == UNION {[1..n -> TierValues] : n \in 0..MaxTiers}
InitTier ==
    /\ Init
    /\ file = NoFile
CallDefaultTier ==
    /\ \E l \in AllTierLists :
         /\ arg' = [fn |-> "get_default_tier_id", allowed_tiers |-> l]
         /\ res' = [k |-> "return", text |-> get_default_tier_id(l)]
    /\ UNCHANGED <<now, file, issued, procVars, authVars, mainVars, utcoffset>>
NextTier == CallDefaultTier
SpecTier == InitTier /\ [][NextTier]_vars

\* ------------------------------------------------- credential file location
\* A path is its sequence of components.  CREDENTIALS_PATH is unset or set
\* to a path; the values used carry no surrounding blanks and no "~", so
\* strip() and expanduser() of main.py:39-42 leave them as they are.
Unset == [set |-> FALSE, value |-> <<>>]
SetTo(path) == [set |-> TRUE, value |-> path]
Path(parts) == [k |-> "path", parts |-> parts]
CredentialsName == "credentials.json"
ScriptDir == <<"app">>
PathNames == {"data", "gemini", CredentialsName}
EnvValues ==
    {Unset} \cup
    {SetTo(v) : v \in UNION {[1..n -> PathNames] : n \in 0..MaxDepth}}

\* creds_dir.lower().endswith(".json")
EndsWithJson(path) == Len(path) > 0 /\ path[Len(path)] = CredentialsName

\* server.py:20-26: the path get_session opens
get_credentials_path(env) ==
    IF env.set THEN Path(env.value)
    ELSE Path(Append(ScriptDir, CredentialsName))

\* manual_auth.py:92: the path save_credentials writes
save_credentials_filepath(env) ==
    IF env.set THEN Path(env.value)
    ELSE Path(Append(ScriptDir, CredentialsName))

\* main.py:39-45: the path main hands to ensure_credentials
main_credentials_path(env) ==
    LET creds_dir == IF env.set /\ env.value # <<>> THEN env.value
                     ELSE ScriptDir
    IN IF EndsWithJson(creds_dir) THEN Raise("ValueError")
       ELSE Path(Append(creds_dir, CredentialsName))

\* SpecPaths: the three components resolve the location under one
\* environment
InitPaths ==
    /\ Init
    /\ file = NoFile
ResolvePaths ==
    /\ \E env \in EnvValues :
         /\ arg' = [fn |-> "credentials_path", env |-> env]
         /\ res' = [k |-> "paths",
                    main |-> main_credentials_path(env),
                    save |-> save_credentials_filepath(env),
                    session |-> get_credentials_path(env)]
    /\ UNCHANGED <<now, file, issued, procVars, authVars, mainVars, utcoffset>>
NextPaths == ResolvePaths
SpecPaths == InitPaths /\ [][NextPaths]_vars

\* ------------------------------------------------------ result formatting
\* A text is the sequence of its characters.  A character of an answer is
\* the number of its position (from 1), so that every character of a
\* rendered segment tells where in the answer it came from; a blank is
\* Space wherever it stands, and Dot is the "." of the ellipsis.
Space == 0
Dot == 0 - 1
Ellipsis == <<Dot, Dot, Dot>>
Least(S) == CHOOSE i \in S : \A j \in S : i <= j
Greatest(S) == CHOOSE i \in S : \A j \in S : i >= j

\* answer[start:stop] of Python: a negative bound counts from the end, and
\* both bounds are then cut to 0..len
SliceBound(x, n) ==
    IF x < 0 THEN (IF x + n < 0 THEN 0 ELSE x + n)
    ELSE (IF x > n THEN n ELSE x)
PySlice(text, start, stop) ==
    LET lo == SliceBound(start, Len(text))
        hi == SliceBound(stop, Len(text))
    IN IF lo >= hi THEN <<>> ELSE SubSeq(text, lo + 1, hi)

\* str.strip()
Strip(text) ==
    LET inked == {i \in 1..Len(text) : text[i] # Space}
    IN IF inked = {} THEN <<>>
       ELSE SubSeq(text, Least(inked), Greatest(inked))

\* server.py:251-258: enumerate(grounding_chunks) from 0-based position i
RECURSIVE SourcesFrom(_, _)
SourcesFrom(grounding_chunks, i) ==
    IF i >= Len(grounding_chunks) THEN <<>>
    ELSE LET web == grounding_chunks[i + 1]
         IN (IF web.uri # ""
             THEN <<[index |-> i + 1, title |-> web.title, uri |-> web.uri]>>
             ELSE <<>>)
            \o SourcesFrom(grounding_chunks, i + 1)

\* ExtractSources numbering the sources it keeps 1, 2, ...
ExtractSources_renumbered(grounding_chunks) ==
    LET kept == SourcesFrom(grounding_chunks, 0)
    IN [j \in 1..Len(kept) |-> [kept[j] EXCEPT !.index = j]]

\* server.py:251-258
ExtractSources(grounding_chunks) == SourcesFrom(grounding_chunks, 0)

\* server.py:276-278: "[index] title - uri"
SourceLine(source) ==
    [index |-> source.index,
     title |-> IF source.title = "" THEN "Untitled" ELSE source.title,
     uri |-> source.uri]

\* Truncate keeping SegmentLimit characters before the ellipsis
Truncate_keepsLimit(text_segment) ==
    IF Len(text_segment) > SegmentLimit
    THEN SubSeq(text_segment, 1, SegmentLimit) \o Ellipsis
    ELSE text_segment

\* server.py:300-301
Truncate(text_segment) ==
    IF Len(text_segment) > SegmentLimit
    THEN SubSeq(text_segment, 1, SegmentKeep) \o Ellipsis
    ELSE text_segment

\* FormatSupport without the chunk_indices test of server.py:298
FormatSupport_anyIndices(answer, support) ==
    LET text_segment ==
            Strip(PySlice(answer, support.startIndex, support.endIndex))
        chunk_indices == support.groundingChunkIndices
    IN IF text_segment # <<>>
       THEN <<[text |-> Truncate(text_segment),
               refs |-> [j \in 1..Len(chunk_indices) |->
                           chunk_indices[j] + 1]]>>
       ELSE <<>>

\* server.py:290-313, one support: no line, or the one line with the
\* segment and the 1-based tags (the confidence suffix is left out)
FormatSupport(answer, support) ==
    LET text_segment ==
            Strip(PySlice(answer, support.startIndex, support.endIndex))
        chunk_indices == support.groundingChunkIndices
    IN IF text_segment # <<>> /\ chunk_indices # <<>>
       THEN <<[text |-> Truncate(text_segment),
               refs |-> [j \in 1..Len(chunk_indices) |->
                           chunk_indices[j] + 1]]>>
       ELSE <<>>

\* server.py:241-315: what the returned text holds, section by section;
\* lines[i] is what support i contributed to the citation section
FormatResult(data) ==
    LET sources == ExtractSources(data.groundingChunks)
        supports == data.groundingSupports
        citing == supports # <<>> /\ data.answer # <<>>
    IN [k |-> "return",
        answer |-> data.answer,
        sources |-> [j \in 1..Len(sources) |-> SourceLine(sources[j])],
        citationMap |-> citing,
        lines |-> [j \in 1..Len(supports) |->
                     IF citing THEN FormatSupport(data.answer, supports[j])
                     ELSE <<>>]]

\* SpecFormat: the formatting of server.py:241-315 applied to the answer
\* and grounding metadata of a generateContent body.  Answers: empty, short
\* with blanks at both ends and inside, short and all blank, and longer
\* than the segment limit with a blank at each end.  Offsets reach below 0
\* and past the end; chunk-index lists are empty, in range or out of range.
AnswerOf(n, blanks) == [i \in 1..n |-> IF i \in blanks THEN Space ELSE i]
Answers ==
    {<<>>,
     AnswerOf(ShortLen, {1, 3, ShortLen}),
     AnswerOf(ShortLen, 1..ShortLen),
     AnswerOf(SegmentLimit + 4, {1, SegmentLimit + 4})}
Offsets(answer) ==
    LET n == Len(answer)
    IN {0 - (n + 1), 0 - 3, 0 - 1} \cup 0..3
       \cup {j \in (n - 3)..(n + 1) : j >= 0}
ChunkIndexLists == {<<>>, <<0>>, <<1, 0>>, <<MaxChunks>>}
Supports(answer) ==
    [startIndex : Offsets(answer), endIndex : Offsets(answer),
     groundingChunkIndices : ChunkIndexLists]
WholeAnswer(answer) ==
    [startIndex |-> 0, endIndex |-> Len(answer),
     groundingChunkIndices |-> <<0>>]
SupportLists(answer) ==
    {<<>>} \cup {<<x>> : x \in Supports(answer)}
    \cup {<<x, WholeAnswer(answer)>> : x \in Supports(answer)}
ChunkValues ==
    {[uri |-> "", title |-> "T"], [uri |-> "u1", title |-> ""],
     [uri |-> "u2", title |-> "T"]}
ChunkLists == UNION {[1..n -> ChunkValues] : n \in 0..MaxChunks}
InitFormat ==
    /\ Init
    /\ file = NoFile
CallFormat ==
    /\ arg = NoArg
    /\ \E a \in Answers, c \in ChunkLists :
         \E g \in SupportLists(a) :
            LET data == [fn |-> "format", answer |-> a,
                         groundingChunks |-> c, groundingSupports |-> g]
            IN /\ arg' = data
               /\ res' = FormatResult(data)
    /\ UNCHANGED <<now, file, issued, procVars, authVars, mainVars, utcoffset>>
NextFormat == CallFormat
SpecFormat == InitFormat /\ [][NextFormat]_vars

\* ------------------------------------------------------ the entry point
\* main.py:38-54.  CREDENTIALS_PATH is unset, names a path that does not
\* exist as a directory, or names a .json file; `file` is what lies at
\* get_credentials_path().  Where main's path and that path differ, main's
\* path lies inside a directory that does not exist, so it is no file.
MainEnvs ==
    {Unset, SetTo(<<"data">>), SetTo(<<"data", CredentialsName>>)}
MainRunner == 1
IsFileAtMainPath(env) ==
    main_credentials_path(env) = get_credentials_path(env) /\ file.exists

\* main.py:39-45: resolve the directory; a value ending in .json raises
MainStart ==
    /\ mpc = "idle"
    /\ \E env \in MainEnvs :
         /\ arg' = [fn |-> "main", env |-> env]
         /\ mpc' = IF main_credentials_path(env).k = "raise"
                   THEN "raised" ELSE "ensure"
    /\ UNCHANGED <<now, file, issued, procVars, authVars, res, mlog, utcoffset>>

\* MainEnsure running the interactive flow whatever it finds
MainEnsure_alwaysAuthenticates ==
    /\ mpc = "ensure"
    /\ mlog' = Append(mlog, IF IsFileAtMainPath(arg.env)
                            THEN "found" ELSE "missing")
    /\ mpc' = "auth"
    /\ UNCHANGED <<now, file, issued, procVars, authVars, pureVars, utcoffset>>

\* main.py:14-29 up to the import: os.path.isfile(credentials_path)
MainEnsure ==
    /\ mpc = "ensure"
    /\ IF IsFileAtMainPath(arg.env)
       THEN /\ mlog' = Append(mlog, "found")
            /\ mpc' = "info"
       ELSE /\ mlog' = Append(mlog, "missing")
            /\ mpc' = "auth"
    /\ UNCHANGED <<now, file, issued, procVars, authVars, pureVars, utcoffset>>

\* main.py:29: manual_auth.main() has ended; a rejected code exchange was
\* re-raised (manual_auth.py:181-184) and ends main
MainAuthEnds ==
    /\ mpc = "auth"
    /\ apc = "idle"
    /\ auths > 0
    /\ IF atokens # NoRecord
       THEN /\ mlog' = Append(mlog, "flow")
            /\ mpc' = "info"
       ELSE /\ mpc' = "raised"
            /\ UNCHANGED mlog
    /\ UNCHANGED <<now, file, issued, procVars, authVars, pureVars, utcoffset>>

\* info.py:53-61: info.main calls get_session
MainInfoStarts ==
    /\ mpc = "info"
    /\ calls[MainRunner] = 0
    /\ StartCall(MainRunner, "get_session", 1)

\* info.py:79-126: with a token, two requests whose transport errors are
\* not caught; any exception of get_session ends the process (sys.exit(1))
InfoRequests == {"ok", "not-ok", "ConnectionError"}
MainInfoEnds ==
    /\ mpc = "info"
    /\ pc[MainRunner] = "done"
    /\ IF session[MainRunner].k = "token"
       THEN \E r \in InfoRequests :
              IF r = "ConnectionError"
              THEN mpc' = "raised" /\ UNCHANGED mlog
              ELSE mpc' = "server" /\ mlog' = Append(mlog, "info")
       ELSE mpc' = "exited" /\ UNCHANGED mlog
    /\ UNCHANGED <<now, file, issued, procVars, authVars, pureVars, utcoffset>>

\* main.py:49-54: int() of the configured port, then run_http
Ports == {"8080", "not-a-number"}
MainServes ==
    /\ mpc = "server"
    /\ \E port \in Ports :
         IF port = "not-a-number"
         THEN mpc' = "raised" /\ UNCHANGED mlog
         ELSE mpc' = "serving" /\ mlog' = Append(mlog, "server")
    /\ UNCHANGED <<now, file, issued, procVars, authVars, pureVars, utcoffset>>

\* SpecMain: one run of main
NextMain ==
    \/ MainStart
    \/ MainEnsure
    \/ mpc = "auth" /\ auths = 0 /\ AuthExchange
    \/ AuthOpen
    \/ AuthFlush
    \/ AuthClose
    \/ MainAuthEnds
    \/ MainInfoStarts
    \/ GsExists(MainRunner)
    \/ GsLoad(MainRunner)
    \/ GsRefresh(MainRunner)
    \/ GsOpen(MainRunner)
    \/ GsFlush(MainRunner)
    \/ GsClose(MainRunner)
    \/ MainInfoEnds
    \/ MainServes

SpecMain == Init /\ [][NextMain]_vars

\* SpecOnboard: one process calls onboard_managed_project directly, with
\* every attempts argument from 0 on; the polling loop keeps running
Onboarders == {1}
OnboardTiers == {FreeTier, "a"}
InitOnboard ==
    /\ Init
    /\ file = NoFile
NextOnboard ==
    \/ \E p \in Onboarders, n \in 0..MaxAttempts, t \in OnboardTiers :
          StartOnboard(p, n, t)
    \/ \E p \in Onboarders : OnboardAttempt(p)

SpecOnboard ==
    /\ InitOnboard
    /\ [][NextOnboard]_vars
    /\ WF_vars(\E p \in Onboarders : OnboardAttempt(p))

\* ------------------------------------------------- the local time zone
\* SpecZone: get_session called again and again by one process while time
\* passes, on a host whose local time zone is west of, at, or east of UTC.
\* The offsets are as large as the lifetime the token endpoint grants.
LocalOffsets == {0 - EndpointExpiresIn, 0, EndpointExpiresIn}

InitZone ==
    /\ InitAnyZone
    /\ utcoffset \in LocalOffsets

NextZone ==
    \/ Tick
    \/ \E p \in Callers : StartCall(p, "get_session", MaxCalls)
    \/ \E p \in Callers : GsExists(p)
    \/ \E p \in Callers : GsLoad(p)
    \/ \E p \in Callers : GsRefresh(p)
    \/ \E p \in Callers : GsOpen(p)
    \/ \E p \in Callers : GsFlush(p)
    \/ \E p \in Callers : GsClose(p)

SpecZone == InitZone /\ [][NextZone]_vars

\* ================================================================= claims
\* vocabulary of the claims, stated on the stored record itself
HasRT(rec) == rec.refresh_token # Null /\ rec.refresh_token # Str("")
ExpiryKnown(rec) == rec.expiry.k = "iso"
KnownFuture(rec, t) == ExpiryKnown(rec) /\ rec.expiry.t > t
KnownPast(rec, t) == ExpiryKnown(rec) /\ rec.expiry.t <= t
ExpiryAbsent(rec) == rec.expiry = Null
Derivable(rec) ==
    rec.obtained_at.k = "iso" /\ rec.expires_in.k \in {"num", "numstr"}
DerivedInstant(rec) == rec.obtained_at.t + rec.expires_in.n
Finishes(p) == pc[p] # "done" /\ pc'[p] = "done"

C2_Original ==
    [][\A p \in Procs :
         (/\ Finishes(p) /\ session'[p].k = "token"
          /\ loaded'[p] # NoRecord
          /\ KnownPast(loaded'[p], callTime[p]) /\ HasRT(loaded'[p]))
         => /\ net'[p].refresh = 1
            /\ WellFormed(file'.data)
            /\ json_load(file'.data).access_token = session'[p].token
            /\ ExpiryKnown(json_load(file'.data))
            /\ json_load(file'.data).expiry.t > callTime[p]]_vars

\* C3 as stated: a record with a past expiry and no refresh token makes
\* get_session fail without any request; the stale token is never returned.
C3_Unrefreshable ==
    \A p \in Procs :
       (/\ pc[p] = "done"
        /\ loaded[p] # NoRecord
        /\ KnownPast(loaded[p], callTime[p]) /\ ~HasRT(loaded[p]))
       => /\ session[p].k = "raise"
          /\ net[p] = NoNet

C5_FailedRefreshLeavesRecord ==
    [][\A p \in Procs :
         (pc[p] = "gs_refresh" /\ pc'[p] # "gs_refresh"
            /\ issued' = issued)
         => /\ pc'[p] = "done"
            /\ session'[p] = Raise("RefreshError")
            /\ opened'[p] = 0
            /\ file' = file
            /\ file' = FileOf(loaded[p])]_vars

\* a call ended with the refresh error after one request
C5_Witness ==
    /\ pc[1] = "done" /\ session[1] = Raise("RefreshError")
    /\ net[1].refresh = 1
    /\ file = FileOf(loaded[1])

\* C6 as stated: after a successful refresh the persisted refresh token is
\* the one the endpoint returned, or the previous one when it returned none.
C6_PersistedRefreshToken ==
    [][\A p \in Procs :
         (pc[p] = "gs_dump" /\ Finishes(p))
         => /\ WellFormed(file'.data)
            /\ json_load(file'.data).refresh_token
                 = creds'[p].refresh_token]_vars

\* C7 as stated: a save is atomic for readers: whoever reads the file while
\* it is being saved gets one complete record, the previous or the new one.
C7_ReadersSeeCompleteRecord ==
    [][\A p \in Procs :
         (pc[p] = "gs_load" /\ pc'[p] # "gs_load")
         => /\ WellFormed(file.data)
            /\ file.data[1].rec = file.data[2].rec]_vars

\* C8 as stated: when two processes call get_session on the same expired
\* record at the same time, so that both load it and both have their
\* refresh request answered, both end with a refreshed token and the file
\* finally holds one of the two complete refreshed records.
C8_LastWriterWins ==
    (\A p \in Procs :
        /\ pc[p] = "done" /\ session[p] # Raise("RefreshError")
        /\ loaded[p] # NoRecord
        /\ loaded[p].access_token = 0
        /\ KnownPast(loaded[p], callTime[p])
        /\ HasRT(loaded[p]))
    => /\ \A p \in Procs : session[p].k = "token" /\ session[p].token # 0
       /\ \E q \in Procs : file = FileOf(creds_data[q])

\* C9 as stated: gemini_search always ends by returning a string; no
\* exception leaves it.
C9_SearchNeverRaises ==
    \A p \in Procs : outcome[p].k # "raise"

C11_GenerateFailureReturned ==
    [][\A p \in Procs :
         (pc[p] = "generate" /\ pc'[p] # "generate") =>
            /\ net'[p].generate = 1
            /\ response'[p] = "HTTPError" =>
                 pc'[p] = "done" /\ outcome'[p] = Return(HttpErrorText)
            /\ response'[p] = "ConnectionError" =>
                 pc'[p] = "done" /\ outcome'[p] = Return(RequestFailedText)
            /\ pc'[p] = "done" =>
                 response'[p] \in {"HTTPError", "ConnectionError"}]_vars

C11_Witness ==
    \E p \in Procs :
        /\ pc[p] = "done"
        /\ response[p] = "HTTPError"
        /\ outcome[p] = Return(HttpErrorText)
        /\ net[p].generate = 1

\* C12: while every onboardUser answer so far was a 2xx that reported no
\* finished project (so the loop variable counts the requests), a call
\* onboard_managed_project(attempts = n), n >= 0, has sent at most n
\* requests and has not raised; it is still polling only while fewer than n
\* were sent; once ended it has sent exactly n requests and returned "".
\* Whatever the answers, a polling call ends.
C12_NeverDone(p) ==
    op[p] = "onboard_managed_project" /\ net[p].onboard = attempt[p]

C12_BoundedPolling ==
    /\ [](\A p \in Onboarders :
            C12_NeverDone(p) =>
               /\ net[p].onboard <= attempts[p]
               /\ outcome[p].k # "raise"
               /\ pc[p] = "onboard" => net[p].onboard < attempts[p]
               /\ pc[p] = "done" =>
                    /\ outcome[p] = Return("")
                    /\ net[p].onboard = attempts[p])
    /\ \A p \in Onboarders : (pc[p] = "onboard") ~> (pc[p] = "done")

C12_Witness ==
    \E p \in Onboarders :
        /\ C12_NeverDone(p)
        /\ pc[p] = "done"
        /\ attempts[p] > 1
        /\ net[p].onboard = attempts[p]
        /\ outcome[p] = Return("")

\* C13: once get_managed_project has returned or handed over to onboarding,
\* exactly one loadCodeAssist request was sent.  When the answer carried a
\* managed project, that project is the result and no onboardUser request
\* was sent.  When it carried none, onboarding was entered with the tier
\* get_default_tier_id picks from the answer's allowedTiers, and the result
\* is what onboarding returned: a project onboardUser reported, or "" after
\* the last of its requests.
C13_Resolved(p) ==
    op[p] = "gemini_search" /\ pc[p] \in {"onboard", "generate", "parse"}

C13_ProjectResolution ==
    \A p \in Procs :
        /\ net[p].load <= 1
        /\ C13_Resolved(p) =>
             /\ net[p].load = 1
             /\ assist[p].project # "" =>
                  /\ pc[p] # "onboard"
                  /\ net[p].onboard = 0
                  /\ project_id[p] = assist[p].project
             /\ assist[p].project = "" =>
                  /\ tier_id[p] = get_default_tier_id(assist[p].tiers)
                  /\ pc[p] # "onboard" =>
                       /\ net[p].onboard >= 1
                       /\ project_id[p] \in {r.id : r \in OnboardResponses}
                       /\ project_id[p] = "" =>
                            net[p].onboard = DefaultAttempts

C13_Witness ==
    \E p \in Procs :
        /\ C13_Resolved(p)
        /\ pc[p] = "generate"
        /\ assist[p].tiers = <<Tier("a", FALSE), Tier("b", TRUE)>>
        /\ tier_id[p] = "b"
        /\ net[p].load = 1
        /\ project_id[p] = "onboarded-project"

\* C14: get_default_tier_id returns "free-tier" for the empty list; for any
\* other list it returns the id of the first tier flagged isDefault, or,
\* when no tier is flagged, the id of the first tier; where the tier so
\* chosen carries no id the result is "free-tier".
C14_Chosen(l) ==
    LET flagged == {i \in 1..Len(l) : l[i].isDefault}
    IN IF flagged = {} THEN 1
       ELSE CHOOSE i \in flagged : \A j \in flagged : i <= j

C14_DefaultTierPolicy ==
    arg.fn = "get_default_tier_id" =>
        LET l == arg.allowed_tiers
        IN IF Len(l) = 0 THEN res = Return("free-tier")
           ELSE IF l[C14_Chosen(l)].hasId
                THEN res = Return(l[C14_Chosen(l)].id)
                ELSE res = Return("free-tier")

C14_Witness ==
    /\ arg.fn = "get_default_tier_id"
    /\ arg.allowed_tiers = <<Tier("a", FALSE), Tier("b", TRUE)>>
    /\ res = Return("b")

\* C15: for CREDENTIALS_PATH unset or set to a directory, the path main
\* checks, the path save_credentials writes and the path get_session reads
\* and rewrites are one and the same: credentials.json inside that
\* directory (the script directory when unset).
C15_IsDirectoryOrUnset(env) ==
    ~env.set \/ (env.value # <<>> /\ ~EndsWithJson(env.value))

C15_SameFile ==
    (arg.fn = "credentials_path" /\ C15_IsDirectoryOrUnset(arg.env)) =>
        LET dir == IF arg.env.set THEN arg.env.value ELSE ScriptDir
        IN /\ res.main = Path(Append(dir, CredentialsName))
           /\ res.save = res.main
           /\ res.session = res.main

\* C16 as stated: the indices of the extracted sources are exactly 1..n,
\* in order, for n sources.
C16_Original ==
    arg.fn = "format" =>
        \A j \in 1..Len(res.sources) : res.sources[j].index = j

\* C16: the extracted sources are the grounding chunks that carry a URI,
\* in chunk order, and the index of a source is the 1-based position of its
\* chunk in the grounding-chunks list; indices increase strictly, and they
\* are exactly 1..n when no chunk before the last source lacks a URI.
C16_WithUri(chunks) == {i \in 1..Len(chunks) : chunks[i].uri # ""}

C16_IndexIsChunkPosition ==
    arg.fn = "format" =>
        LET chunks == arg.groundingChunks
            listed == {res.sources[j].index : j \in 1..Len(res.sources)}
        IN /\ listed = C16_WithUri(chunks)
           /\ Len(res.sources) = Cardinality(C16_WithUri(chunks))
           /\ \A j \in 1..Len(res.sources) :
                /\ res.sources[j].index >= 1
                /\ res.sources[j].uri = chunks[res.sources[j].index].uri
                /\ j > 1 => res.sources[j - 1].index < res.sources[j].index
           /\ (\A i \in 1..Len(chunks) :
                 chunks[i].uri = "" => \A m \in listed : m < i)
              => \A j \in 1..Len(res.sources) : res.sources[j].index = j

C16_Witness ==
    /\ arg.fn = "format"
    /\ Len(arg.groundingChunks) = 2
    /\ arg.groundingChunks[1].uri = ""
    /\ Len(res.sources) = 1
    /\ res.sources[1].index = 2

\* C17: for a support whose start or end offset is negative or greater
\* than the length of the answer, or whose start exceeds its end, the
\* rendered segment holds no character of the answer from outside
\* [start, end) with both offsets clamped to 0..length.
C17_Clamp(x, n) == IF x < 0 THEN 0 ELSE IF x > n THEN n ELSE x
C17_OutOfRangeOrReversed(support, n) ==
    \/ support.startIndex < 0 \/ support.startIndex > n
    \/ support.endIndex < 0 \/ support.endIndex > n
    \/ support.startIndex > support.endIndex

C17_SegmentInsideClampedRange ==
    arg.fn = "format" =>
        \A j \in 1..Len(res.lines) :
            LET support == arg.groundingSupports[j]
                n == Len(arg.answer)
                lo == C17_Clamp(support.startIndex, n)
                hi == C17_Clamp(support.endIndex, n)
            IN C17_OutOfRangeOrReversed(support, n) =>
                  \A line \in {res.lines[j][m] : m \in 1..Len(res.lines[j])} :
                     \A c \in {line.text[m] : m \in 1..Len(line.text)} :
                        c > 0 => (lo < c /\ c <= hi)

\* C18: a support contributes a line to the citation section exactly when
\* its segment, extracted from the answer and trimmed, is non-empty and its
\* chunk-indices list is non-empty; it never contributes more than one.
C18_RenderedIffSegmentAndIndices ==
    arg.fn = "format" =>
        \A j \in 1..Len(res.lines) :
            LET support == arg.groundingSupports[j]
                trimmed == Strip(PySlice(arg.answer, support.startIndex,
                                         support.endIndex))
            IN /\ Len(res.lines[j]) <= 1
               /\ Len(res.lines[j]) = 1 <=>
                    (trimmed # <<>> /\ support.groundingChunkIndices # <<>>)

C18_Witness ==
    /\ arg.fn = "format"
    /\ Len(res.lines) = 1
    /\ arg.groundingSupports[1].groundingChunkIndices = <<>>
    /\ arg.groundingSupports[1].startIndex = 1
    /\ arg.groundingSupports[1].endIndex = 2
    /\ Len(arg.answer) >= 2
    /\ arg.answer[2] # Space
    /\ res.lines[1] = <<>>

\* C19: the segment of a rendered support is the trimmed segment itself
\* when that has 100 characters or fewer, and otherwise its first 97
\* characters followed by "...", 100 characters in all.
C19_TruncatedTo97PlusEllipsis ==
    arg.fn = "format" =>
        \A j \in 1..Len(res.lines) :
            \A m \in 1..Len(res.lines[j]) :
                LET support == arg.groundingSupports[j]
                    trimmed == Strip(PySlice(arg.answer, support.startIndex,
                                             support.endIndex))
                    text == res.lines[j][m].text
                IN IF Len(trimmed) > 100
                   THEN /\ Len(text) = 100
                        /\ SubSeq(text, 1, 97) = SubSeq(trimmed, 1, 97)
                        /\ SubSeq(text, 98, 100) = <<Dot, Dot, Dot>>
                   ELSE text = trimmed

C19_Witness ==
    /\ arg.fn = "format"
    /\ Len(res.lines) = 1
    /\ Len(res.lines[1]) = 1
    /\ arg.groundingSupports[1].endIndex - arg.groundingSupports[1].startIndex
         > 100
    /\ Len(res.lines[1][1].text) = 100
    /\ res.lines[1][1].text[100] = Dot
    /\ res.lines[1][1].text[97] # Dot

\* C20 as stated: the record save_credentials builds has obtained_at equal
\* to the current time, expiry equal to obtained_at + expires_in whenever
\* the token response carries an expires_in, and a null expiry when it
\* carries none; that record is what the file holds once written.
C20_Original ==
    [][/\ (apc = "save" /\ apc' = "dump") =>
            /\ acreds'.obtained_at = IsoStr(now, "+00:00")
            /\ atokens.expires_in # Null =>
                 acreds'.expiry
                   = IsoStr(now + atokens.expires_in.n, "+00:00")
            /\ atokens.expires_in = Null => acreds'.expiry = Null
       /\ (apc = "dump" /\ apc' = "idle") => file' = FileOf(acreds)]_vars

\* C20: the record save_credentials builds has obtained_at equal to the
\* current time, expiry equal to obtained_at + expires_in when the token
\* response carries expires_in as a JSON number, and a null expiry when it
\* carries none or carries it as anything else (a numeric string, say);
\* that record is what the file holds once written.
C20_SavedRecord ==
    [][/\ (apc = "save" /\ apc' = "dump") =>
            /\ acreds'.obtained_at = IsoStr(now, "+00:00")
            /\ acreds'.expires_in = atokens.expires_in
            /\ atokens.expires_in.k = "num" =>
                 acreds'.expiry
                   = IsoStr(now + atokens.expires_in.n, "+00:00")
            /\ atokens.expires_in.k # "num" => acreds'.expiry = Null
       /\ (apc = "dump" /\ apc' = "idle") => file' = FileOf(acreds)]_vars

C20_Witness ==
    /\ apc = "idle"
    /\ acreds # NoRecord
    /\ acreds.expires_in = Num(EndpointExpiresIn)
    /\ acreds.expiry = IsoStr(acreds.obtained_at.t + EndpointExpiresIn,
                              "+00:00")
    /\ file = FileOf(acreds)

\* C21 as stated: main never ends without starting the server; it runs
\* the interactive flow exactly when the credentials file is missing,
\* then prints the info, and only then starts the server.
C21_Order ==
    /\ mpc = "serving" =>
         mlog \in {<<"found", "info", "server">>,
                   <<"missing", "flow", "info", "server">>}
    /\ (mlog # <<>> /\ mlog[1] = "found") => auths = 0
    /\ (mlog # <<>> /\ mlog[1] = "missing" /\ mpc \notin {"auth", "raised"})
         => (Len(mlog) >= 2 /\ mlog[2] = "flow")

C22_NoRetry ==
    \A p \in Procs :
        op[p] = "gemini_search" =>
            /\ net[p].refresh <= 1
            /\ net[p].load <= 1
            /\ net[p].generate <= 1
            /\ outcome[p] = Raise("RefreshError") =>
                 /\ net[p].refresh = 1
                 /\ net[p].load = 0 /\ net[p].onboard = 0
                 /\ net[p].generate = 0
            /\ outcome[p] \in {Raise("ConnectionError"),
                               Raise("HTTPError")} =>
                 /\ net[p].load = 1
                 /\ net[p].generate = 0
                 /\ net[p].onboard = 0 \/ onboard_data[p].kind = "HTTPError"
            /\ outcome[p] \in {Return(HttpErrorText),
                               Return(RequestFailedText)} =>
                 /\ net[p].generate = 1
                 /\ pc[p] = "done"

C22_Witness ==
    \E p \in Procs :
        /\ op[p] = "gemini_search"
        /\ pc[p] = "done"
        /\ outcome[p] = Raise("ConnectionError")
        /\ net[p].refresh = 1
        /\ net[p].load = 1
        /\ net[p].generate = 0

\* C23: a request of the polling loop whose answer reports done with a
\* non-empty project id ends the call with that id, without a wait, and no
\* request follows; any other 2xx answer, one with done and an empty id
\* included, is followed by a wait and leaves the loop running, unless it
\* was the last of the attempts, which ends the call with "" and no wait.
\* So while the loop is between requests there were as many waits as
\* requests, and once it has ended after k >= 1 requests, k - 1 waits.
C23_PollingSteps ==
    /\ [](\A p \in Onboarders :
            op[p] = "onboard_managed_project" =>
               /\ pc[p] = "onboard" => slept[p] = net[p].onboard
               /\ (pc[p] = "done" /\ net[p].onboard >= 1) =>
                    slept[p] = net[p].onboard - 1)
    /\ [][\A p \in Onboarders :
            /\ pc[p] = "done" => net'[p].onboard \in {net[p].onboard, 0}
            /\ net'[p].onboard = net[p].onboard + 1 =>
                 LET data == onboard_data'[p]
                 IN /\ (data.kind = "ok" /\ data.done /\ data.id # "") =>
                         /\ pc'[p] = "done"
                         /\ outcome'[p] = Return(data.id)
                         /\ slept'[p] = slept[p]
                    /\ (data.kind = "ok" /\ ~(data.done /\ data.id # "")) =>
                         IF net'[p].onboard < attempts[p]
                         THEN pc'[p] = "onboard" /\ slept'[p] = slept[p] + 1
                         ELSE /\ pc'[p] = "done"
                              /\ outcome'[p] = Return("")
                              /\ slept'[p] = slept[p]]_vars

C23_Witness ==
    \E p \in Onboarders :
        /\ op[p] = "onboard_managed_project"
        /\ pc[p] = "done"
        /\ onboard_data[p] = [kind |-> "ok", done |-> TRUE,
                              id |-> "onboarded-project"]
        /\ outcome[p] = Return("onboarded-project")
        /\ net[p].onboard = 3
        /\ slept[p] = 2

\* C24: once project resolution has given gemini_search an empty project
\* id, the call neither raises nor sends a generateContent request: the
\* payload of a generateContent request (server.py:191-192 takes its
\* project from project_id) never carries an empty project.
C24_EmptyProjectNotSent ==
    \A p \in Procs :
        (op[p] = "gemini_search" /\ net[p].generate >= 1) =>
            project_id[p] # ""

\* C25: every tag k of a rendered citation line has an entry with index k
\* in the rendered source list, and that entry is the grounding chunk at
\* 0-based position k - 1.
C25_TagsListed ==
    arg.fn = "format" =>
        \A j \in 1..Len(res.lines) :
            \A m \in 1..Len(res.lines[j]) :
                \A k \in {res.lines[j][m].refs[i] :
                            i \in 1..Len(res.lines[j][m].refs)} :
                    /\ k - 1 >= 0 /\ k - 1 < Len(arg.groundingChunks)
                    /\ \E n \in 1..Len(res.sources) :
                         /\ res.sources[n].index = k
                         /\ res.sources[n].uri = arg.groundingChunks[k].uri

\* C26 as stated: refresh converges.  After a get_session call that
\* refreshed successfully and persisted the record, a get_session call made
\* at any time before the new token's expiry finds the stored record valid
\* (sends no refresh request) and the record holds the access token the
\* refreshing call returned.
C26_RefreshConverges ==
    [][\A p \in Procs :
         (/\ pc[p] = "gs_dump" /\ Finishes(p)
          /\ net[p].refresh = 1
          /\ creds[p].expiry # NoDatetime
          /\ WellFormed(file'.data))
         => LET c == MakeCreds(json_load(file'.data))
            IN /\ c.token = session'[p].token
               /\ \A t \in now .. (creds[p].expiry.t - 1) :
                     ~NeedsRefresh(c, t)]_vars

====
